---------------------------- MODULE Spec2Model ----------------------------
(***************************************************************************)
(* Model of the hardware-module detector driver                            *)
(* (src/hw_registers/src/hw_registers.c).                                  *)
(*                                                                         *)
(* One lifecycle thread runs the platform driver's probe and remove        *)
(* handlers step by step (the driver core serializes them); the hardware   *)
(* register may change at any time; in SpecConc a second thread calls the  *)
(* exported queries concurrently with probe/remove.                        *)
(***************************************************************************)
EXTENDS Integers, Sequences, FiniteSets, TLC

(***************************************************************************)
(* Bounds of the model                                                     *)
(***************************************************************************)
\* number of platform devices matching the driver
NumPDev == 2
\* number of attribute-creation failures injected in one run
MaxPublishFailures == 2

(***************************************************************************)
(* Program constants                                                       *)
(***************************************************************************)
\* module_present_attrs[32], for (i = 0; i < 32; i++), module_bit >= 32
NBITS == 32
\* kstrtouint(attr->attr.name + 7, ...)
NAME_OFFSET == 7
\* char name[20]
NAME_BUF == 20
\* errno values
ENOMEM == 12
EINVAL == 22
EEXIST == 17
EBUSY == 16

RECURSIVE Pow2(_)
Pow2(n) == IF n = 0 THEN 1 ELSE 2 * Pow2(n - 1)

\* a null pointer; pointers to detectors are platform-device numbers
NULL == 0
PDevs == 1..NumPDev
Bits == 0..(NBITS - 1)

\* A u32 is the set of the positions of its set bits: 0x2a is {1, 3, 5},
\* 0 is {} and 0xffffffff is 0..31.
ZERO == {}
\* register values the hardware is made to hold:
\* 0, 0x8000002a, 0xffffffff
Masks == {ZERO, {1, 3, 5, 31}, Bits}
\* the first attribute-creation failure of a run is injected at any bit,
\* the later ones at these bits
RefailBits == {0, 1, 30}
\* arguments >= 32 given to hw_module_present (unsigned int)
BigBits == {32, 33, 63, 64, 2147483647}

(***************************************************************************)
(* Bit arithmetic                                                          *)
(***************************************************************************)
\* BIT(nr) is (1UL << nr)
BIT(nr) == {nr}
\* a & b
BitAnd(a, b) == a \cap b
\* the u32 an unsigned int below 2^31 converts to
ToU32(n) == {k \in 0..30 : (n \div Pow2(k)) % 2 = 1}
\* the value of hexadecimal digit k (0 the lowest) of a u32
Nibble(a, k) ==
    (IF 4 * k \in a THEN 1 ELSE 0) + (IF 4 * k + 1 \in a THEN 2 ELSE 0)
    + (IF 4 * k + 2 \in a THEN 4 ELSE 0) + (IF 4 * k + 3 \in a THEN 8 ELSE 0)

(***************************************************************************)
(* Text: a string is a sequence of one-character strings                   *)
(***************************************************************************)
DigitChars == <<"0", "1", "2", "3", "4", "5", "6", "7", "8", "9">>
HexChars == DigitChars \o <<"a", "b", "c", "d", "e", "f">>
NL == "\n"

\* "%d" of a non-negative int
RECURSIVE FmtDec(_)
FmtDec(n) ==
    IF n < 10 THEN <<DigitChars[n + 1]>>
    ELSE FmtDec(n \div 10) \o <<DigitChars[(n % 10) + 1]>>

\* "%08x" of a u32: its 8 hexadecimal digits, the highest first
FmtHex08(a) == [k \in 1..8 |-> HexChars[Nibble(a, 8 - k) + 1]]

\* snprintf(buf, size, ...) keeps at most size - 1 characters
Truncate(s, size) == IF Len(s) > size - 1 THEN SubSeq(s, 1, size - 1) ELSE s

\* (mutant) snprintf(name, sizeof(name), "module_%d", i + 1)
AttrName_next(i) ==
    Truncate(<<"m", "o", "d", "u", "l", "e", "_">> \o FmtDec(i + 1), NAME_BUF)
\* snprintf(name, sizeof(name), "module_%d", i)
AttrName(i) ==
    Truncate(<<"m", "o", "d", "u", "l", "e", "_">> \o FmtDec(i), NAME_BUF)

\* the name DEVICE_ATTR_RO(module_bits) gives the aggregate attribute
ModuleBitsName ==
    <<"m", "o", "d", "u", "l", "e", "_", "b", "i", "t", "s">>

IsDigit(c) == \E d \in 1..10 : DigitChars[d] = c
DigitVal(c) == (CHOOSE d \in 1..10 : DigitChars[d] = c) - 1

RECURSIVE ParseDec(_, _)
ParseDec(s, acc) ==
    IF s = <<>> THEN acc
    ELSE ParseDec(Tail(s), 10 * acc + DigitVal(Head(s)))

\* kstrtouint(s, 10, &res): the whole string must be decimal digits (one
\* trailing newline is accepted) and the value must fit an unsigned int
\* (names here have at most 12 digits; a value of 10 digits or more is
\* reported as out of range, 9 digits always fit)
kstrtouint(s) ==
    LET t == IF Len(s) > 0 /\ s[Len(s)] = NL THEN SubSeq(s, 1, Len(s) - 1)
             ELSE s
    IN  IF t = <<>> \/ \E k \in 1..Len(t) : ~IsDigit(t[k])
        THEN [err |-> -EINVAL, val |-> 0]
        ELSE IF Len(t) > 9
             THEN [err |-> -34, val |-> 0]
             ELSE [err |-> 0, val |-> ParseDec(t, 0)]

\* name + off
StrFrom(s, off) == SubSeq(s, off + 1, Len(s))

(***************************************************************************)
(* State                                                                   *)
(***************************************************************************)
VARIABLES
    pc,                   \* position of the lifecycle thread in probe/remove
    cur,                  \* pdev of the running probe/remove (NULL when idle)
    idx,                  \* loop variable i of create_module_sysfs_files
    ret,                  \* local ret
    detector,             \* the struct hw_module_detector devm-allocated per pdev
    drvdata,              \* platform_get_drvdata(pdev)
    hw_detector,          \* static struct hw_module_detector *hw_detector
    bound,                \* pdevs the driver core has bound to the driver
    hwreg,                \* value the hardware register holds now
    classReg,             \* class "hw_module" is registered
    devReg,               \* device "hw_module" exists
    files,                \* names of the attribute files under the device
    module_present_attrs, \* static struct device_attribute *[32]
    failures,             \* attribute-creation failures injected so far
    oplog,                \* calls made by the current / last probe or remove
    pre,                  \* global state when the current / last call began
    lastop,               \* last call that returned, with its return value
    snap,                 \* value readl returned in the probe of each pdev
    fault,                \* memory fault the lifecycle thread has run into
    qpc, qkind, qbit,     \* concurrent query: position, function, argument
    qptr,                 \* value of hw_detector the query's null check loaded
    qstale,               \* qptr's detector was released since it was loaded
    qres,                 \* value the query returned
    qfault                \* memory fault the query has run into

lifeVars == <<pc, cur, idx, ret, detector, drvdata, hw_detector, bound,
              classReg, devReg, files, module_present_attrs, failures,
              oplog, pre, lastop, snap, fault>>
queryVars == <<qpc, qkind, qbit, qptr, qres, qfault>>
vars == <<lifeVars, hwreg, queryVars, qstale>>

\* a zeroed / released struct hw_module_detector
NoDetector ==
    [alive |-> FALSE, reg_base |-> NULL, module_bits |-> ZERO,
     hw_class |-> "null", hw_device |-> "null"]

\* a NULL slot of module_present_attrs
NullAttr == [ptr |-> "null", name |-> <<>>]

\* the global state a call finds; for a remove also whether the call that
\* returned before it was a remove, and whether that one detached an instance
Snapshot(isRemove) ==
    [files |-> files, classReg |-> classReg, devReg |-> devReg,
     hw_detector |-> hw_detector, attrs |-> module_present_attrs,
     bound |-> bound,
     prevop |-> IF isRemove /\ lastop.op = "remove"
                THEN (IF pre.bound # {} THEN "detach" ELSE "remove")
                ELSE "none"]

\* no call has returned since the last one began
NoOp == [op |-> "none", pdev |-> NULL, ret |-> 0]

Log(e, n) == Append(oplog, [ev |-> e, i |-> n])

Init ==
    /\ pc = "idle" /\ cur = NULL /\ idx = 0 /\ ret = 0
    /\ detector = [p \in PDevs |-> NoDetector]
    /\ drvdata = [p \in PDevs |-> NULL]
    /\ hw_detector = NULL
    /\ bound = {}
    /\ hwreg \in Masks
    /\ classReg = FALSE /\ devReg = FALSE /\ files = {}
    /\ module_present_attrs = [i \in Bits |-> NullAttr]
    /\ failures = 0
    /\ oplog = <<>>
    /\ pre = [files |-> {}, classReg |-> FALSE, devReg |-> FALSE,
              hw_detector |-> NULL,
              attrs |-> [i \in Bits |-> NullAttr],
              bound |-> {}, prevop |-> "none"]
    /\ lastop = NoOp
    /\ snap = [p \in PDevs |-> ZERO]
    /\ fault = "none"
    /\ qpc = "idle" /\ qkind = "none" /\ qbit = 0 /\ qptr = NULL
    /\ qstale = FALSE /\ qres = ZERO /\ qfault = "none"

(***************************************************************************)
(* Queries and attribute read handlers, as a caller that is not            *)
(* interleaved with probe/remove sees them.  Each gives the set of results *)
(* the call can produce in the current state: one value, unless the read   *)
(* goes through a released detector, whose memory may hold anything.       *)
(***************************************************************************)
\* the values a load of det->module_bits can give
ModuleBitsOf(det) ==
    IF detector[det].alive THEN {detector[det].module_bits} ELSE Masks

\* bool hw_module_present(unsigned int module_bit)
\* (mutant) no range check, the shift count taken modulo 32
hw_module_present_wrap(module_bit) ==
    IF hw_detector = NULL THEN {FALSE}
    ELSE {BitAnd(b, BIT(module_bit % NBITS)) # ZERO : b \in ModuleBitsOf(hw_detector)}
\* (mutant) the bit number used as the mask: bits & module_bit
hw_module_present_shift(module_bit) ==
    IF hw_detector = NULL \/ module_bit >= NBITS THEN {FALSE}
    ELSE {BitAnd(b, ToU32(module_bit)) # ZERO : b \in ModuleBitsOf(hw_detector)}
hw_module_present(module_bit) ==
    IF hw_detector = NULL \/ module_bit >= NBITS THEN {FALSE}
    ELSE {BitAnd(b, BIT(module_bit)) # ZERO : b \in ModuleBitsOf(hw_detector)}

\* u32 hw_get_module_mask(void)
\* (mutant) reads the register again instead of the cached value
hw_get_module_mask_live ==
    IF hw_detector = NULL THEN {ZERO} ELSE {hwreg}
hw_get_module_mask ==
    IF hw_detector = NULL THEN {ZERO} ELSE ModuleBitsOf(hw_detector)

\* sprintf(buf, ...): the return value is the number of characters written
Sprintf(s) == [ret |-> Len(s), buf |-> s]
Errno(e) == [ret |-> -e, buf |-> <<>>]

\* (mutant) the detector taken from dev_get_drvdata(dev), the drvdata
\* device_create gave the device, with no check of hw_detector
module_bits_show_drvdata ==
    LET det == CHOOSE p \in PDevs :
                   detector[p].alive /\ detector[p].hw_device = "ok"
    IN  {Sprintf(<<"0", "x">> \o FmtHex08(b) \o <<NL>>) :
           b \in ModuleBitsOf(det)}
\* module_bits_show: sprintf(buf, "0x%08x\n", hw_detector->module_bits)
module_bits_show ==
    IF hw_detector = NULL THEN {Errno(EINVAL)}
    ELSE {Sprintf(<<"0", "x">> \o FmtHex08(b) \o <<NL>>) :
            b \in ModuleBitsOf(hw_detector)}

\* module_present_show of the attribute whose attr.name is name
\* (mutant) parses from name + 6
module_present_show_off(name) ==
    IF hw_detector = NULL THEN {Errno(EINVAL)}
    ELSE LET r == kstrtouint(StrFrom(name, NAME_OFFSET - 1))
         IN  IF r.err # 0 \/ r.val >= NBITS THEN {Errno(EINVAL)}
             ELSE {Sprintf(FmtDec(IF v THEN 1 ELSE 0) \o <<NL>>) :
                     v \in hw_module_present(r.val)}
module_present_show(name) ==
    IF hw_detector = NULL THEN {Errno(EINVAL)}
    ELSE LET r == kstrtouint(StrFrom(name, NAME_OFFSET))
         IN  IF r.err # 0 \/ r.val >= NBITS THEN {Errno(EINVAL)}
             ELSE {Sprintf(FmtDec(IF v THEN 1 ELSE 0) \o <<NL>>) :
                     v \in hw_module_present(r.val)}

\* a read of the published attribute file called name
ReadFile(name) ==
    IF name = ModuleBitsName THEN module_bits_show
    ELSE module_present_show(name)

(***************************************************************************)
(* The attribute tree (sysfs) as the driver uses it                        *)
(***************************************************************************)
\* device_create_file refuses a name that exists (-EEXIST)
CanCreateFile(fs, name) == name \notin fs
device_create_file(fs, name) == fs \cup {name}
\* device_remove_file of a name that is not there removes nothing
device_remove_file(fs, name) == fs \ {name}

\* device_destroy unregisters the device, and its directory goes with every
\* file still in it
device_destroy(fs) == {}

\* the slots a cleanup loop acts on: if (module_present_attrs[i])
Present(attrs) == {i \in Bits : attrs[i].ptr # "null"}
\* slots whose pointer refers to an attribute that was already freed
Dangling(attrs) == {i \in Bits : attrs[i].ptr = "dangling"}

\* device_remove_file for every present slot.  A dangling slot gives
\* device_remove_file a freed attribute: whatever name it reads there, the
\* file it can hit is one this loop removes anyway or one that is not there.
RemoveSlotFiles(fs, attrs) ==
    fs \ {attrs[i].name : i \in {j \in Present(attrs) : attrs[j].ptr = "valid"}}

(***************************************************************************)
(* hw_module_detector_probe                                                *)
(***************************************************************************)
\* the driver core calls probe for a device that is not bound
ProbeCall(p) ==
    /\ pc = "idle"
    /\ p \notin bound
    /\ pc' = "p_alloc" /\ cur' = p /\ idx' = 0 /\ ret' = 0
    /\ oplog' = <<>>
    /\ pre' = Snapshot(FALSE)
    /\ lastop' = NoOp
    /\ UNCHANGED <<detector, drvdata, hw_detector, bound, classReg, devReg,
                   files, module_present_attrs, failures, snap, fault>>
    /\ UNCHANGED <<hwreg, queryVars, qstale>>

\* detector = devm_kzalloc(...); if (!detector) return -ENOMEM;
ProbeAlloc ==
    /\ pc = "p_alloc"
    /\ \E ok \in BOOLEAN :
         IF ok
         THEN /\ detector' = [detector EXCEPT ![cur] =
                                  [NoDetector EXCEPT !.alive = TRUE]]
              /\ pc' = "p_res" /\ ret' = ret
         ELSE /\ ret' = -ENOMEM /\ pc' = "p_ret"
              /\ UNCHANGED detector
    /\ UNCHANGED <<cur, idx, drvdata, hw_detector, bound, classReg, devReg,
                   files, module_present_attrs, failures, oplog, pre, lastop,
                   snap, fault>>
    /\ UNCHANGED <<hwreg, queryVars, qstale>>

\* res = platform_get_resource(...); if (!res) return -EINVAL;
ProbeGetResource ==
    /\ pc = "p_res"
    /\ \E ok \in BOOLEAN :
         IF ok THEN pc' = "p_map" /\ ret' = ret
         ELSE ret' = -EINVAL /\ pc' = "p_ret"
    /\ UNCHANGED <<cur, idx, detector, drvdata, hw_detector, bound, classReg,
                   devReg, files, module_present_attrs, failures, oplog, pre,
                   lastop, snap, fault>>
    /\ UNCHANGED <<hwreg, queryVars, qstale>>

\* detector->reg_base = devm_ioremap_resource(dev, res); IS_ERR -> return
ProbeMap ==
    /\ pc = "p_map"
    /\ \E ok \in BOOLEAN :
         IF ok
         THEN /\ detector' = [detector EXCEPT ![cur].reg_base = 1]
              /\ pc' = "p_read" /\ ret' = ret
         ELSE /\ ret' = -EBUSY /\ pc' = "p_ret"
              /\ UNCHANGED detector
    /\ UNCHANGED <<cur, idx, drvdata, hw_detector, bound, classReg, devReg,
                   files, module_present_attrs, failures, oplog, pre, lastop,
                   snap, fault>>
    /\ UNCHANGED <<hwreg, queryVars, qstale>>

\* (mutant) the guard inverted, `if (detector->reg_base) return;`: with the
\* register mapped nothing is stored
read_hw_module_reg_skip(det, regval) == det.module_bits
\* read_hw_module_reg: the value stored into detector->module_bits
read_hw_module_reg(det, regval) ==
    IF det.reg_base = NULL THEN det.module_bits ELSE regval

\* read_hw_module_reg(detector);
ProbeRead ==
    /\ pc = "p_read"
    /\ detector' = [detector EXCEPT ![cur].module_bits =
                        read_hw_module_reg(detector[cur], hwreg)]
    /\ snap' = [snap EXCEPT ![cur] = hwreg]
    /\ oplog' = Append(Log("readl", -1), [ev |-> "store_module_bits", i |-> -1])
    /\ pc' = "p_class"
    /\ UNCHANGED <<cur, idx, ret, drvdata, hw_detector, bound, classReg,
                   devReg, files, module_present_attrs, failures, pre, lastop,
                   fault>>
    /\ UNCHANGED <<hwreg, queryVars, qstale>>

\* detector->hw_class = class_create("hw_module"); a class of that name can
\* be registered once (a second registration fails with -EEXIST)
ProbeClassCreate ==
    /\ pc = "p_class"
    /\ \E ok \in BOOLEAN :
         IF ok /\ ~classReg
         THEN /\ classReg' = TRUE
              /\ detector' = [detector EXCEPT ![cur].hw_class = "ok"]
              /\ oplog' = Log("class_create", -1)
              /\ pc' = "p_device" /\ ret' = ret
         ELSE /\ detector' = [detector EXCEPT ![cur].hw_class = "err"]
              /\ ret' = IF classReg THEN -EEXIST ELSE -ENOMEM
              /\ pc' = "p_ret"
              /\ UNCHANGED <<classReg, oplog>>
    /\ UNCHANGED <<cur, idx, drvdata, hw_detector, bound, devReg, files,
                   module_present_attrs, failures, pre, lastop, snap, fault>>
    /\ UNCHANGED <<hwreg, queryVars, qstale>>

\* detector->hw_device = device_create(...); IS_ERR -> goto err_class
ProbeDeviceCreate ==
    /\ pc = "p_device"
    /\ \E ok \in BOOLEAN :
         IF ok
         THEN /\ devReg' = TRUE
              /\ detector' = [detector EXCEPT ![cur].hw_device = "ok"]
              /\ oplog' = Log("device_create", -1)
              /\ pc' = "p_agg" /\ ret' = ret
         ELSE /\ detector' = [detector EXCEPT ![cur].hw_device = "err"]
              /\ ret' = -ENOMEM
              /\ pc' = "p_err_class"
              /\ UNCHANGED <<devReg, oplog>>
    /\ UNCHANGED <<cur, idx, drvdata, hw_detector, bound, classReg, files,
                   module_present_attrs, failures, pre, lastop, snap, fault>>
    /\ UNCHANGED <<hwreg, queryVars, qstale>>

(***************************************************************************)
(* create_module_sysfs_files                                               *)
(***************************************************************************)
\* (mutant) if (ret) goto err_cleanup;
AggregateFailLabel_cleanup == "p_cleanup"
\* where create_module_sysfs_files goes when creating module_bits failed:
\* `if (ret) return ret;`, back to probe's check of the result
AggregateFailLabel == "p_check"

\* ret = device_create_file(dev, &dev_attr_module_bits); if (ret) return ret;
CreateAggregate ==
    /\ pc = "p_agg"
    /\ \E ok \in BOOLEAN :
         IF ok /\ CanCreateFile(files, ModuleBitsName)
         THEN /\ files' = device_create_file(files, ModuleBitsName)
              /\ oplog' = Log("device_create_file", -1)
              /\ pc' = "p_bit" /\ idx' = 0 /\ ret' = ret
         ELSE /\ ret' = IF CanCreateFile(files, ModuleBitsName)
                        THEN -ENOMEM ELSE -EEXIST
              /\ pc' = AggregateFailLabel
              /\ UNCHANGED <<files, oplog, idx>>
    /\ UNCHANGED <<cur, detector, drvdata, hw_detector, bound, classReg,
                   devReg, module_present_attrs, failures, pre, lastop, snap,
                   fault>>
    /\ UNCHANGED <<hwreg, queryVars, qstale>>

\* what one pass of the loop body for bit i can end in
BitOutcomes == {"ok", "no_attr", "no_name", "no_file"}

\* one pass of for (i = 0; i < 32; i++): kzalloc, kstrdup, device_create_file
CreateBit ==
    /\ pc = "p_bit"
    /\ \E out \in BitOutcomes :
         LET name == AttrName(idx)
             good == out = "ok" /\ CanCreateFile(files, name)
         IN  /\ (out # "ok") =>
                    /\ failures < MaxPublishFailures
                    /\ failures = 0 \/ idx \in RefailBits
             /\ IF good
                THEN /\ module_present_attrs' =
                          [module_present_attrs EXCEPT ![idx] =
                               [ptr |-> "valid", name |-> name]]
                     /\ files' = device_create_file(files, name)
                     /\ oplog' = Log("device_create_file", idx)
                     /\ idx' = idx + 1
                     /\ pc' = IF idx + 1 < NBITS THEN "p_bit" ELSE "p_check"
                     /\ ret' = 0
                     /\ UNCHANGED failures
                ELSE \* every failure path leaves slot i NULL: kzalloc
                     \* returned NULL, or the slot is freed and set to NULL
                     /\ module_present_attrs' =
                          [module_present_attrs EXCEPT ![idx] = NullAttr]
                     /\ ret' = IF out = "ok" THEN -EEXIST ELSE -ENOMEM
                     /\ oplog' = Log(IF out = "ok" THEN "no_file" ELSE out, idx)
                     /\ failures' = IF out = "ok" THEN failures
                                    ELSE failures + 1
                     /\ pc' = "p_cleanup"
                     /\ UNCHANGED <<files, idx>>
    /\ UNCHANGED <<cur, detector, drvdata, hw_detector, bound, classReg,
                   devReg, pre, lastop, snap, fault>>
    /\ UNCHANGED <<hwreg, queryVars, qstale>>

\* the events of a loop over the slots, in ascending order of i
RECURSIVE LogSlots(_, _, _, _)
LogSlots(log, attrs, e, i) ==
    IF i >= NBITS THEN log
    ELSE LogSlots(IF attrs[i].ptr # "null"
                  THEN Append(log, [ev |-> e, i |-> i]) ELSE log,
                  attrs, e, i + 1)

\* err_cleanup: device_remove_file(dev, &dev_attr_module_bits)
ErrCleanupAggregate(fs) == device_remove_file(fs, ModuleBitsName)

\* err_cleanup: the loop removes and frees every non-NULL slot and leaves
\* the pointer in the slot
ErrCleanupSlots(attrs) ==
    [i \in Bits |-> IF attrs[i].ptr # "null"
                    THEN [ptr |-> "dangling", name |-> <<>>] ELSE attrs[i]]

\* err_cleanup: ... return ret;
ErrCleanup ==
    /\ pc = "p_cleanup"
    /\ files' = ErrCleanupAggregate(RemoveSlotFiles(files, module_present_attrs))
    /\ module_present_attrs' = ErrCleanupSlots(module_present_attrs)
    /\ oplog' = Append(LogSlots(oplog, module_present_attrs,
                                "device_remove_file", 0),
                       [ev |-> "device_remove_file", i |-> -1])
    /\ fault' = IF Dangling(module_present_attrs) # {} THEN "double_free"
                ELSE fault
    /\ pc' = "p_check"
    /\ UNCHANGED <<cur, idx, ret, detector, drvdata, hw_detector, bound,
                   classReg, devReg, failures, pre, lastop, snap>>
    /\ UNCHANGED <<hwreg, queryVars, qstale>>

\* err_cleanup reaching a slot that a previous failed call left dangling
\* frees it a second time, which the allocator may answer with a BUG()
ErrCleanupOops ==
    /\ pc = "p_cleanup"
    /\ Dangling(module_present_attrs) # {}
    /\ fault' = "double_free"
    /\ pc' = "oops"
    /\ UNCHANGED <<cur, idx, ret, detector, drvdata, hw_detector, bound,
                   classReg, devReg, files, module_present_attrs, failures,
                   oplog, pre, lastop, snap>>
    /\ UNCHANGED <<hwreg, queryVars, qstale>>

(***************************************************************************)
(* hw_module_detector_probe, after create_module_sysfs_files               *)
(***************************************************************************)
\* if (ret) goto err_device;  hw_detector = detector;
\* (mutant) hw_detector assigned before ret is tested
ProbeSingleton_early(r, det, old) == det
ProbeSingleton(r, det, old) == IF r # 0 THEN old ELSE det

\* the label create_module_sysfs_files' failure jumps to: goto err_device
\* (mutant) goto err_class
PublishFailLabel_class == "p_err_class"
PublishFailLabel == "p_err_device"

ProbeCheck ==
    /\ pc = "p_check"
    /\ hw_detector' = ProbeSingleton(ret, cur, hw_detector)
    /\ IF ret # 0
       THEN pc' = PublishFailLabel /\ UNCHANGED drvdata
       ELSE /\ drvdata' = [drvdata EXCEPT ![cur] = cur]
            /\ pc' = "p_ret"
    /\ UNCHANGED <<cur, idx, ret, detector, bound, classReg, devReg, files,
                   module_present_attrs, failures, oplog, pre, lastop, snap,
                   fault>>
    /\ UNCHANGED <<hwreg, queryVars, qstale>>

\* err_device: device_destroy(detector->hw_class, MKDEV(0, 0));
ProbeErrDevice ==
    /\ pc = "p_err_device"
    /\ devReg' = FALSE
    /\ files' = device_destroy(files)
    /\ oplog' = Log("device_destroy", -1)
    /\ pc' = "p_err_class"
    /\ UNCHANGED <<cur, idx, ret, detector, drvdata, hw_detector, bound,
                   classReg, module_present_attrs, failures, pre, lastop,
                   snap, fault>>
    /\ UNCHANGED <<hwreg, queryVars, qstale>>

\* err_class: class_destroy(detector->hw_class); return ret;
ProbeErrClass ==
    /\ pc = "p_err_class"
    /\ classReg' = FALSE
    /\ oplog' = Log("class_destroy", -1)
    /\ pc' = "p_ret"
    /\ UNCHANGED <<cur, idx, ret, detector, drvdata, hw_detector, bound,
                   devReg, files, module_present_attrs, failures, pre, lastop,
                   snap, fault>>
    /\ UNCHANGED <<hwreg, queryVars, qstale>>

\* probe returns to the driver core: on success the device is bound; on
\* failure the core releases the device's devm resources (the detector and
\* its mapping) and clears its drvdata
ProbeReturn ==
    /\ pc = "p_ret"
    /\ IF ret = 0
       THEN /\ bound' = bound \cup {cur}
            /\ UNCHANGED <<detector, drvdata, snap, qstale>>
       ELSE /\ detector' = [detector EXCEPT ![cur] = NoDetector]
            /\ drvdata' = [drvdata EXCEPT ![cur] = NULL]
            /\ snap' = [snap EXCEPT ![cur] = ZERO]
            /\ qstale' = (qstale \/ (qpc = "deref" /\ qptr = cur))
            /\ UNCHANGED bound
    /\ lastop' = [op |-> "probe", pdev |-> cur, ret |-> ret]
    /\ pc' = "idle" /\ cur' = NULL /\ idx' = 0 /\ ret' = 0
    /\ UNCHANGED <<hw_detector, classReg, devReg, files,
                   module_present_attrs, failures, oplog, pre, fault>>
    /\ UNCHANGED <<hwreg, queryVars>>

(***************************************************************************)
(* hw_module_detector_remove                                               *)
(***************************************************************************)
\* the driver core calls remove for the bound device; a detach requested
\* while nothing is bound reaches the handler with drvdata NULL
RemoveCall(p) ==
    /\ pc = "idle"
    /\ p \in bound \/ bound = {}
    /\ pc' = "r_check" /\ cur' = p
    /\ oplog' = <<>>
    /\ pre' = Snapshot(TRUE)
    /\ lastop' = NoOp
    /\ UNCHANGED <<idx, ret, detector, drvdata, hw_detector, bound, classReg,
                   devReg, files, module_present_attrs, failures, snap,
                   fault>>
    /\ UNCHANGED <<hwreg, queryVars, qstale>>

\* detector = platform_get_drvdata(pdev); if (detector) { ... }
\* (mutant) no if (detector)
RemoveGuard_always(det) == TRUE
RemoveGuard(det) == det # NULL

\* (mutant) device_destroy first, remove_module_sysfs_files left out
RemoveFirstStep_device == "r_device"
\* the first release inside `if (detector)`: remove_module_sysfs_files
RemoveFirstStep == "r_files"

RemoveCheck ==
    /\ pc = "r_check"
    /\ pc' = IF RemoveGuard(drvdata[cur]) THEN RemoveFirstStep ELSE "r_clear"
    /\ UNCHANGED <<cur, idx, ret, detector, drvdata, hw_detector, bound,
                   classReg, devReg, files, module_present_attrs, failures,
                   oplog, pre, lastop, snap, fault>>
    /\ UNCHANGED <<hwreg, queryVars, qstale>>

\* remove_module_sysfs_files(detector->hw_device)
RemoveFiles ==
    /\ pc = "r_files"
    /\ files' = device_remove_file(
                    RemoveSlotFiles(files, module_present_attrs),
                    ModuleBitsName)
    /\ module_present_attrs' = [i \in Bits |-> NullAttr]
    /\ oplog' = Append(LogSlots(oplog, module_present_attrs,
                                "device_remove_file", 0),
                       [ev |-> "device_remove_file", i |-> -1])
    /\ fault' = IF Dangling(module_present_attrs) # {} THEN "double_free"
                ELSE fault
    /\ pc' = "r_device"
    /\ UNCHANGED <<cur, idx, ret, detector, drvdata, hw_detector, bound,
                   classReg, devReg, failures, pre, lastop, snap>>
    /\ UNCHANGED <<hwreg, queryVars, qstale>>

\* device_destroy(detector->hw_class, MKDEV(0, 0));
RemoveDevice ==
    /\ pc = "r_device"
    /\ devReg' = FALSE
    /\ files' = device_destroy(files)
    /\ oplog' = Log("device_destroy", -1)
    /\ pc' = "r_class"
    /\ UNCHANGED <<cur, idx, ret, detector, drvdata, hw_detector, bound,
                   classReg, module_present_attrs, failures, pre, lastop,
                   snap, fault>>
    /\ UNCHANGED <<hwreg, queryVars, qstale>>

\* class_destroy(detector->hw_class);
RemoveClass ==
    /\ pc = "r_class"
    /\ classReg' = FALSE
    /\ oplog' = Log("class_destroy", -1)
    /\ pc' = "r_clear"
    /\ UNCHANGED <<cur, idx, ret, detector, drvdata, hw_detector, bound,
                   devReg, files, module_present_attrs, failures, pre, lastop,
                   snap, fault>>
    /\ UNCHANGED <<hwreg, queryVars, qstale>>

\* hw_detector = NULL;
\* (mutant) hw_detector not cleared
RemoveSingleton_keep(old) == old
RemoveSingleton(old) == NULL

RemoveClear ==
    /\ pc = "r_clear"
    /\ hw_detector' = RemoveSingleton(hw_detector)
    /\ pc' = "r_ret"
    /\ UNCHANGED <<cur, idx, ret, detector, drvdata, bound, classReg, devReg,
                   files, module_present_attrs, failures, oplog, pre, lastop,
                   snap, fault>>
    /\ UNCHANGED <<hwreg, queryVars, qstale>>

\* return 0; the driver core unbinds the device: it releases the device's
\* devm resources (the detector and its mapping) and clears its drvdata
RemoveReturn ==
    /\ pc = "r_ret"
    /\ detector' = [detector EXCEPT ![cur] = NoDetector]
    /\ drvdata' = [drvdata EXCEPT ![cur] = NULL]
    /\ snap' = [snap EXCEPT ![cur] = ZERO]
    /\ bound' = bound \ {cur}
    /\ qstale' = (qstale \/ (qpc = "deref" /\ qptr = cur))
    /\ lastop' = [op |-> "remove", pdev |-> cur, ret |-> 0]
    /\ pc' = "idle" /\ cur' = NULL /\ idx' = 0 /\ ret' = 0
    /\ UNCHANGED <<hw_detector, classReg, devReg, files,
                   module_present_attrs, failures, oplog, pre, fault>>
    /\ UNCHANGED <<hwreg, queryVars>>

(***************************************************************************)
(* The hardware                                                            *)
(***************************************************************************)
\* the register takes another value
HwChange ==
    /\ \E v \in Masks \ {hwreg} : hwreg' = v
    /\ UNCHANGED <<lifeVars, queryVars, qstale>>

(***************************************************************************)
(* A query running concurrently with probe/remove                          *)
(***************************************************************************)
\* arguments the concurrent caller gives hw_module_present
QueryBits == {1, 31, 32}

\* if (!hw_detector || module_bit >= 32) return false;   (present)
\* if (!hw_detector) return 0;                           (mask)
QueryCheck ==
    /\ qpc = "idle"
    /\ \E k \in {"present", "mask"}, b \in QueryBits :
         /\ (k = "mask") => b = 1
         /\ qkind' = k /\ qbit' = b
         /\ IF hw_detector = NULL \/ (k = "present" /\ b >= NBITS)
            THEN qpc' = "done" /\ qres' = ZERO /\ qptr' = NULL
            ELSE qpc' = "deref" /\ qres' = qres /\ qptr' = hw_detector
    /\ qstale' = FALSE
    /\ UNCHANGED <<lifeVars, hwreg, qfault>>

\* return hw_detector->module_bits ...: hw_detector is a plain global, so
\* the build may use the value the null check loaded or load it again
QueryDeref ==
    /\ qpc = "deref"
    /\ \E ptr \in {qptr, hw_detector} :
         IF ptr = NULL
         THEN qfault' = "null_deref" /\ qres' = ZERO
         ELSE /\ \E b \in (IF detector[ptr].alive /\ ~(ptr = qptr /\ qstale)
                           THEN {detector[ptr].module_bits} ELSE Masks) :
                    qres' = IF qkind = "mask" THEN b
                            ELSE IF BitAnd(b, BIT(qbit)) # ZERO
                                 THEN BIT(0) ELSE ZERO
              /\ qfault' = IF detector[ptr].alive /\ ~(ptr = qptr /\ qstale)
                           THEN qfault ELSE "use_after_free"
    /\ qpc' = "done"
    /\ UNCHANGED <<lifeVars, hwreg, qkind, qbit, qptr, qstale>>

\* the caller takes the result
QueryReturn ==
    /\ qpc = "done"
    /\ qpc' = "idle" /\ qkind' = "none" /\ qbit' = 0 /\ qptr' = NULL
    /\ qres' = ZERO /\ qfault' = "none" /\ qstale' = FALSE
    /\ UNCHANGED <<lifeVars, hwreg>>

(***************************************************************************)
(* Specifications                                                          *)
(***************************************************************************)
\* probe and remove serialized, the register changing at any time
Next ==
    \/ \E p \in PDevs : ProbeCall(p)
    \/ ProbeAlloc \/ ProbeGetResource \/ ProbeMap \/ ProbeRead
    \/ ProbeClassCreate \/ ProbeDeviceCreate
    \/ CreateAggregate \/ CreateBit \/ ErrCleanup \/ ErrCleanupOops
    \/ ProbeCheck \/ ProbeErrDevice \/ ProbeErrClass \/ ProbeReturn
    \/ \E p \in PDevs : RemoveCall(p)
    \/ RemoveCheck \/ RemoveFiles \/ RemoveDevice \/ RemoveClass
    \/ RemoveClear \/ RemoveReturn
    \/ HwChange

Spec == Init /\ [][Next]_vars

\* Queries running concurrently with probe and remove.  No creation of a
\* per-bit attribute fails here (the failures to inject are spent), so the
\* rollback steps are not part of it.
InitConc ==
    /\ pc = "idle" /\ cur = NULL /\ idx = 0 /\ ret = 0
    /\ detector = [p \in PDevs |-> NoDetector]
    /\ drvdata = [p \in PDevs |-> NULL]
    /\ hw_detector = NULL
    /\ bound = {}
    /\ hwreg \in Masks
    /\ classReg = FALSE /\ devReg = FALSE /\ files = {}
    /\ module_present_attrs = [i \in Bits |-> NullAttr]
    /\ failures = MaxPublishFailures
    /\ oplog = <<>>
    /\ pre = [files |-> {}, classReg |-> FALSE, devReg |-> FALSE,
              hw_detector |-> NULL,
              attrs |-> [i \in Bits |-> NullAttr],
              bound |-> {}, prevop |-> "none"]
    /\ lastop = NoOp
    /\ snap = [p \in PDevs |-> ZERO]
    /\ fault = "none"
    /\ qpc = "idle" /\ qkind = "none" /\ qbit = 0 /\ qptr = NULL
    /\ qstale = FALSE /\ qres = ZERO /\ qfault = "none"

NextConc ==
    \/ \E p \in PDevs : ProbeCall(p)
    \/ ProbeAlloc \/ ProbeGetResource \/ ProbeMap \/ ProbeRead
    \/ ProbeClassCreate \/ ProbeDeviceCreate
    \/ CreateAggregate \/ CreateBit
    \/ ProbeCheck \/ ProbeErrDevice \/ ProbeErrClass \/ ProbeReturn
    \/ \E p \in PDevs : RemoveCall(p)
    \/ RemoveCheck \/ RemoveFiles \/ RemoveDevice \/ RemoveClass
    \/ RemoveClear \/ RemoveReturn
    \/ HwChange
    \/ QueryCheck \/ QueryDeref \/ QueryReturn

SpecConc == InitConc /\ [][NextConc]_vars

(***************************************************************************)
(* Properties                                                              *)
(***************************************************************************)
Range(f) == {f[k] : k \in DOMAIN f}

\* the bits whose creation failed in the current / last call, and how
FailEvents == {"no_attr", "no_name", "no_file"}
FailedBits == {e.i : e \in {x \in Range(oplog) : x.ev \in FailEvents}}

\* a probe has returned an error after creation of a per-bit attribute failed
PublishFailedReturn ==
    pc = "idle" /\ lastop.op = "probe" /\ FailedBits # {}

\* p is attached: its probe returned 0 and its remove has not begun
Attached(p) == p \in bound /\ cur # p

\* C1: rollback completeness.  When attach returns after creation of per-bit
\* attribute k failed (allocation of the attribute, of its name, or its
\* publication), it returns an error, no attribute is published (neither
\* module_bits nor any module_<i>) and the device and the class have been
\* destroyed.
C1_RollbackComplete ==
    PublishFailedReturn =>
        /\ lastop.ret # 0
        /\ files = {}
        /\ ~devReg /\ ~classReg

\* C1 witness: publication of module_31 failed after 31 per-bit attributes
\* had been published, and attach has returned
C1_Witness ==
    /\ PublishFailedReturn
    /\ \E e \in Range(oplog) : e.ev = "no_file" /\ e.i = NBITS - 1
    /\ \A k \in 0..(NBITS - 2) :
          \E e \in Range(oplog) : e.ev = "device_create_file" /\ e.i = k
    /\ files = {} /\ ~devReg /\ ~classReg

\* C2: while a detector is attached with the register having held mask at
\* its read, hw_module_present(bit) is true exactly when bit `bit` of mask
\* is set, for every bit in 0..31.
C2_PresentMatchesMask ==
    \A p \in PDevs :
        Attached(p) =>
            \A bit \in Bits :
                hw_module_present(bit) = {bit \in snap[p]}

\* C2 witness: attached with 0x8000002a: bits 1 and 31 present, bit 0 absent
C2_Witness ==
    \E p \in PDevs :
        /\ Attached(p) /\ pc = "idle"
        /\ snap[p] = {1, 3, 5, 31}
        /\ hw_module_present(1) = {TRUE}
        /\ hw_module_present(31) = {TRUE}
        /\ hw_module_present(0) = {FALSE}

\* C3: between calls, hw_detector is set iff an attach has returned success
\* and detach has not run since; it then points to that instance; a failed
\* attach leaves it as it found it; at most one instance is attached.
C3_SingletonIffAttached ==
    /\ Cardinality(bound) <= 1
    /\ Cardinality({p \in PDevs : drvdata[p] # NULL}) <= 1
    /\ pc = "idle" =>
          /\ (hw_detector # NULL) <=> (bound # {})
          /\ hw_detector # NULL =>
                hw_detector \in bound /\ detector[hw_detector].alive
          /\ (lastop.op = "probe" /\ lastop.ret # 0) =>
                hw_detector = pre.hw_detector

\* C3 witness: an attach issued while an instance is attached has failed,
\* and the singleton still is the attached instance
C3_Witness ==
    /\ pc = "idle" /\ lastop.op = "probe" /\ lastop.ret # 0
    /\ pre.bound # {} /\ lastop.pdev \notin bound
    /\ hw_detector \in bound

\* C4: between calls with no detector attached (before the first attach,
\* after a failed attach, after detach), hw_module_present is false for
\* every argument and hw_get_module_mask is 0.
C4_DetachedUnavailable ==
    (pc = "idle" /\ bound = {}) =>
        /\ \A bit \in Bits \cup BigBits : hw_module_present(bit) = {FALSE}
        /\ hw_get_module_mask = {ZERO}

\* C4 witness: a detector that was attached has been detached
C4_Witness ==
    /\ pc = "idle" /\ bound = {}
    /\ lastop.op = "remove" /\ pre.hw_detector # NULL
    /\ \E e \in Range(oplog) : e.ev = "class_destroy"
    /\ hw_get_module_mask = {ZERO}

\* the number of readl calls of the current / last call
Reads == Cardinality({k \in DOMAIN oplog : oplog[k].ev = "readl"})

\* C5: snapshot semantics.  While a detector is the singleton,
\* hw_get_module_mask is the value the register held at the one read of its
\* attach, whatever the register holds now; a successful attach has read the
\* register exactly once.
C5_Snapshot ==
    /\ \A p \in PDevs :
          (hw_detector = p /\ detector[p].alive) =>
              hw_get_module_mask = {snap[p]}
    /\ (pc = "idle" /\ lastop.op = "probe" /\ lastop.ret = 0) => Reads = 1
    /\ (pc = "idle" /\ lastop.op = "remove") => Reads = 0

\* C5 witness: the register has changed since the attach that read it
C5_Witness ==
    \E p \in PDevs :
        /\ Attached(p) /\ pc = "idle" /\ hw_detector = p
        /\ snap[p] = {1, 3, 5, 31} /\ hwreg = Bits
        /\ hw_get_module_mask = {{1, 3, 5, 31}}

\* C6: a query running concurrently with attach or detach never reads
\* through a cleared singleton nor through a detector that has been detached
\* and released.
C6_QueryNeverFaults == qfault = "none"

\* C7: between calls, slot i of module_present_attrs is non-NULL iff per-bit
\* attribute i is published.
C7_SlotsTrackPublished ==
    pc = "idle" =>
        \A i \in Bits :
            (module_present_attrs[i].ptr # "null") <=> (AttrName(i) \in files)

\* the detector whose probe created the device the files are under
Owner == CHOOSE p \in PDevs : detector[p].alive /\ detector[p].hw_device = "ok"

HexVal(c) == (CHOOSE d \in 1..16 : HexChars[d] = c) - 1
\* the u32 that 8 hexadecimal digits, the highest first, denote
DecodeHex8(ds) ==
    {4 * (8 - k) + j : k \in 1..8, j \in 0..3} \cap
    {b \in Bits : (HexVal(ds[8 - (b \div 4)]) \div Pow2(b % 4)) % 2 = 1}

\* what a read of the published file called name has to give for mask m
ReadsAs(name, m) ==
    IF name = ModuleBitsName
    THEN \A r \in ReadFile(name) :
            /\ r.ret = 11 /\ Len(r.buf) = 11
            /\ r.buf[1] = "0" /\ r.buf[2] = "x" /\ r.buf[11] = NL
            /\ \A k \in 3..10 : \E d \in 1..16 : HexChars[d] = r.buf[k]
            /\ DecodeHex8(SubSeq(r.buf, 3, 10)) = m
    ELSE \E i \in Bits :
            /\ name = AttrName(i)
            /\ kstrtouint(StrFrom(name, NAME_OFFSET)) = [err |-> 0, val |-> i]
            /\ ReadFile(name) =
                 {[ret |-> 2, buf |-> <<IF i \in m THEN "1" ELSE "0", NL>>]}

\* C8 as stated: at every moment a published attribute, when read, reports
\* the mask captured at attach (module_<i>: 1 or 0 for bit i, module_bits:
\* 0x and 8 hexadecimal digits).
C8_ReadsReportMask ==
    \A name \in files : ReadsAs(name, snap[Owner])

\* C8 amended: the same at every moment at which the singleton hw_detector
\* is set.
C8_ReadsReportMaskWhenSet ==
    hw_detector # NULL =>
        \A name \in files : ReadsAs(name, snap[hw_detector])

\* C8 witness: all 33 attributes are published for mask 0x8000002a and read
C8_Witness ==
    /\ hw_detector # NULL /\ pc = "idle"
    /\ files = {ModuleBitsName} \cup {AttrName(i) : i \in Bits}
    /\ Cardinality(files) = NBITS + 1
    /\ snap[hw_detector] = {1, 3, 5, 31}
    /\ ReadFile(ModuleBitsName) =
         {[ret |-> 11,
           buf |-> <<"0", "x", "8", "0", "0", "0", "0", "0", "2", "a", NL>>]}
    /\ ReadFile(AttrName(31)) = {[ret |-> 2, buf |-> <<"1", NL>>]}
    /\ ReadFile(AttrName(30)) = {[ret |-> 2, buf |-> <<"0", NL>>]}

\* C9: a detach called while no instance is attached changes nothing: it
\* calls neither device_remove_file nor device_destroy nor class_destroy,
\* and the published files, the device, the class, the singleton and every
\* slot of module_present_attrs are as the call found them.
C9_DetachNoop ==
    (pc = "idle" /\ lastop.op = "remove" /\ pre.bound = {}) =>
        /\ oplog = <<>>
        /\ files = pre.files
        /\ devReg = pre.devReg /\ classReg = pre.classReg
        /\ hw_detector = pre.hw_detector
        /\ module_present_attrs = pre.attrs

\* C9 witness: detach has been called twice in a row, the first one having
\* detached an instance
C9_Witness ==
    /\ pc = "idle" /\ lastop.op = "remove"
    /\ pre.bound = {} /\ pre.prevop = "detach"
    /\ oplog = <<>> /\ hw_detector = NULL /\ files = {}

\* C10: hw_module_present(bit) is false for every bit >= 32, in every state.
C10_BigBitFalse ==
    \A bit \in BigBits : hw_module_present(bit) = {FALSE}

\* C10 witness: attached with 0xffffffff, where every bit below 32 is present
C10_Witness ==
    /\ hw_detector # NULL
    /\ detector[hw_detector].module_bits = Bits
    /\ hw_module_present(NBITS - 1) = {TRUE}
    /\ hw_module_present(NBITS) = {FALSE}

\* C11: over every serialized sequence of attaches and detaches, each per-bit
\* attribute object (and its name) that was allocated is released exactly
\* once: no release (device_remove_file + kfree) is applied to a slot whose
\* object has been released before, and between calls every object that is
\* still allocated is the one of a published attribute (none is leaked).
C11_ReleasedExactlyOnce ==
    /\ fault # "double_free"
    /\ pc # "oops"
    /\ pc = "idle" =>
           \A i \in Bits :
               module_present_attrs[i].ptr = "valid" => AttrName(i) \in files

\* a probe has returned an error
AttachFailedReturn == pc = "idle" /\ lastop.op = "probe" /\ lastop.ret # 0

\* what a failed attach leaves of the device model and of the singleton: the
\* published files, the device, the class and hw_detector are as before the
\* call, the detector of the attempt is freed, and with the singleton unset
\* the queries answer 0 / false
FailedAttachReleased ==
    /\ files = pre.files
    /\ devReg = pre.devReg /\ classReg = pre.classReg
    /\ hw_detector = pre.hw_detector
    /\ ~detector[lastop.pdev].alive
    /\ drvdata[lastop.pdev] = NULL
    /\ hw_detector = NULL =>
           /\ hw_get_module_mask = {ZERO}
           /\ \A bit \in Bits : hw_module_present(bit) = {FALSE}

\* C12: when an attach has returned an error, whatever step failed, what the
\* attempt acquired is released and the global state is what the attempt
\* found: the files, the device, the class and the singleton hw_detector are
\* as before the call, and so is every slot of the global array
\* module_present_attrs.
C12_FailedAttachRestores ==
    AttachFailedReturn =>
        /\ FailedAttachReleased
        /\ module_present_attrs = pre.attrs

\* positions in the log of the current call of the store into module_bits and
\* of the publications (device_create_file of module_bits or of a module_<i>)
StoreIdx == {k \in DOMAIN oplog : oplog[k].ev = "store_module_bits"}
PublishIdx == {k \in DOMAIN oplog : oplog[k].ev = "device_create_file"}

\* positions of probe before and after its call of read_hw_module_reg
BeforeRead == {"p_alloc", "p_res", "p_map", "p_read"}
AfterRead == {"p_class", "p_device", "p_agg", "p_bit", "p_cleanup", "p_check",
              "p_err_device", "p_err_class"}

\* module_bits of every allocated detector is the value it was given by the
\* one store of its attach (0, from devm_kzalloc, before that store); the
\* store has happened once when probe is past read_hw_module_reg and precedes
\* every publication
C13_Written ==
    /\ \A p \in PDevs : detector[p].alive => detector[p].module_bits = snap[p]
    /\ pc \in BeforeRead =>
           /\ StoreIdx = {} /\ PublishIdx = {}
           /\ detector[cur].alive => detector[cur].module_bits = ZERO
    /\ pc \in AfterRead =>
           /\ Cardinality(StoreIdx) = 1
           /\ \A s \in StoreIdx : \A k \in PublishIdx : s < k
    /\ pc \notin BeforeRead \cup AfterRead => Cardinality(StoreIdx) <= 1

\* a step that changes module_bits of a detector that stays allocated is the
\* read_hw_module_reg of its own attach, taken before anything is published
C13_OnlyStore ==
    \A p \in PDevs :
        (/\ detector[p].alive /\ detector'[p].alive
         /\ detector'[p].module_bits # detector[p].module_bits)
        => /\ pc = "p_read" /\ cur = p
           /\ StoreIdx = {} /\ PublishIdx = {}
           /\ pc' = "p_class"

\* C13: within one attach module_bits is written exactly once, before
\* module_bits or any module_<i> is published, and no later step of the
\* attach, no detach and no other attach writes it again (the queries and
\* the show handlers are functions of the state and write nothing).
C13_WrittenOnce == []C13_Written /\ [][C13_OnlyStore]_vars

\* C13 witness: an attach has stored 0x8000002a, published all 33 attributes
\* and returned; the detach of that device is now in progress, the register
\* has changed since, and module_bits is still the stored value
C13_Witness ==
    /\ pc = "r_device" /\ files = {}
    /\ detector[cur].module_bits = {1, 3, 5, 31}
    /\ hwreg # {1, 3, 5, 31}
    /\ Len(oplog) = NBITS + 1

\* the name the specification gives per-bit attribute i: module_<i>, i in
\* decimal without leading zeros
BitAttrName(i) ==
    <<"m", "o", "d", "u", "l", "e", "_">> \o
    (IF i < 10 THEN <<DigitChars[i + 1]>>
     ELSE <<DigitChars[(i \div 10) + 1], DigitChars[(i % 10) + 1]>>)

\* the publications of the current call, in the order they were made
Published == SelectSeq(oplog, LAMBDA e : e.ev = "device_create_file")

\* C14: publish creates module_bits first and then module_0, module_1, ... in
\* ascending order.  While the loop of a publish is at index i (about to
\* create bit i, or having just failed to), the published attributes are
\* module_bits and exactly module_0 .. module_<i-1>, created in that order;
\* when publish has succeeded all 33 are published; and in every state
\* module_bits is published whenever some module_<i> is.
C14_PrefixPublished ==
    /\ pc \in {"p_bit", "p_cleanup"} =>
           /\ idx \in Bits
           /\ files = {ModuleBitsName} \cup {BitAttrName(j) : j \in 0..(idx - 1)}
           /\ Cardinality(files) = idx + 1
           /\ Published = [k \in 1..(idx + 1) |->
                               [ev |-> "device_create_file", i |-> k - 2]]
    /\ (pc = "p_check" /\ ret = 0) =>
           /\ files = {ModuleBitsName} \cup {BitAttrName(j) : j \in Bits}
           /\ Cardinality(files) = NBITS + 1
           /\ Published = [k \in 1..(NBITS + 1) |->
                               [ev |-> "device_create_file", i |-> k - 2]]
    /\ (\E i \in Bits : BitAttrName(i) \in files) => ModuleBitsName \in files

\* C14 witness: the loop is about to create module_10, with module_bits and
\* module_0 .. module_9 published and module_10 not
C14_Witness ==
    /\ pc = "p_bit" /\ idx = 10
    /\ Cardinality(files) = 11
    /\ ModuleBitsName \in files
    /\ BitAttrName(9) \in files /\ BitAttrName(10) \notin files

\* create_module_sysfs_files has returned to probe the error of the creation
\* of module_bits: it failed with nothing published in this call
AggregateFailed == pc = "p_check" /\ ret # 0 /\ Published = <<>>

\* the events a call of probe has logged when it enters
\* create_module_sysfs_files
LogAtPublish ==
    <<[ev |-> "readl", i |-> -1], [ev |-> "store_module_bits", i |-> -1],
      [ev |-> "class_create", i |-> -1], [ev |-> "device_create", i |-> -1]>>

\* C15: when the creation of module_bits fails, publish returns that error
\* and has done nothing else: no per-bit attribute was allocated or published
\* and no removal was attempted (the call's log is what it was on entry), no
\* file is published, and every slot of module_present_attrs is what the call
\* found.
C15_AggregateFailureNoEffect ==
    AggregateFailed =>
        /\ ret \in {-ENOMEM, -EEXIST}
        /\ oplog = LogAtPublish
        /\ files = pre.files /\ files = {}
        /\ module_present_attrs = pre.attrs

\* C15 witness: the creation of module_bits failed in an attach made after
\* an attach that had failed at a per-bit attribute; the slots that attach
\* left non-NULL are untouched
C15_Witness ==
    /\ AggregateFailed /\ ret = -ENOMEM
    /\ module_present_attrs[0].ptr = "dangling"
    /\ module_present_attrs = pre.attrs
    /\ oplog = LogAtPublish

\* remove is running for the device that was attached when it was called
Detaching ==
    /\ pc \in {"r_check", "r_files", "r_device", "r_class", "r_clear", "r_ret"}
    /\ pre.bound # {}

\* the removals remove_module_sysfs_files logs for a full set of attributes:
\* module_0 .. module_31, then module_bits
AllRemoved ==
    [k \in 1..(NBITS + 1) |->
        [ev |-> "device_remove_file", i |-> IF k <= NBITS THEN k - 1 ELSE -1]]

\* the order of the releases inside hw_module_detector_remove: the attributes
\* are unpublished before the device is destroyed, the device before the
\* class, and hw_detector is cleared after all of them, as the last statement
\* of the handler; in no state is an attribute published without the device,
\* or the device registered without the class
DetachOrder ==
    /\ files # {} => devReg
    /\ devReg => classReg
    /\ Detaching =>
        /\ cur \in pre.bound /\ pre.hw_detector = cur
        /\ pc \in {"r_check", "r_files"} =>
               /\ files = pre.files /\ Cardinality(files) = NBITS + 1
               /\ devReg /\ classReg /\ hw_detector = cur
               /\ oplog = <<>>
        /\ pc = "r_device" =>
               /\ files = {} /\ devReg /\ classReg /\ hw_detector = cur
               /\ oplog = AllRemoved
        /\ pc = "r_class" =>
               /\ files = {} /\ ~devReg /\ classReg /\ hw_detector = cur
               /\ oplog = Append(AllRemoved, [ev |-> "device_destroy", i |-> -1])
        /\ pc = "r_clear" =>
               /\ files = {} /\ ~devReg /\ ~classReg /\ hw_detector = cur
               /\ oplog = AllRemoved \o <<[ev |-> "device_destroy", i |-> -1],
                                          [ev |-> "class_destroy", i |-> -1]>>
        /\ pc = "r_ret" =>
               /\ files = {} /\ ~devReg /\ ~classReg /\ hw_detector = NULL

\* C16 (as claimed): detach releases in the reverse order of attach: the
\* attributes before the device, the device before the class, the singleton
\* cleared as the last step, and the register mapping released before the
\* singleton is cleared: while the detached device's mapping is still held,
\* hw_detector is still set.
C16_ReverseOrder ==
    /\ DetachOrder
    /\ (Detaching /\ detector[cur].reg_base # NULL) => hw_detector # NULL

\* C16 (amended): the same order inside the handler, with the register
\* mapping (and the detector, both device-managed) still held when the
\* handler clears hw_detector, and released once the handler has returned.
C16_DetachOrder ==
    /\ DetachOrder
    /\ Detaching => detector[cur].alive /\ detector[cur].reg_base # NULL
    /\ (pc = "idle" /\ lastop.op = "remove" /\ pre.bound # {}) =>
           /\ detector[lastop.pdev] = NoDetector
           /\ hw_detector = NULL

\* C16 witness: the handler has cleared hw_detector after unpublishing the 33
\* attributes and destroying the device and the class, and has not returned:
\* the mapping is still held
C16_Witness ==
    /\ Detaching /\ pc = "r_ret"
    /\ hw_detector = NULL /\ pre.hw_detector = cur
    /\ detector[cur].reg_base # NULL
    /\ Len(oplog) = NBITS + 3

\* a read returned content: a positive length and that many characters
IsContent(r) == r.ret > 0 /\ Len(r.buf) = r.ret

\* C17: in every state, a read of a published attribute (module_bits or a
\* module_<i>) returns -EINVAL and no content while hw_detector is NULL, as
\* in the part of attach between the publication of the attributes and the
\* assignment of hw_detector, and returns content when hw_detector is set.
C17_ReadNeedsSingleton ==
    \A name \in files :
        /\ hw_detector = NULL => ReadFile(name) = {Errno(EINVAL)}
        /\ hw_detector # NULL =>
               /\ ReadFile(name) # {}
               /\ \A r \in ReadFile(name) : IsContent(r)

\* C17 witness: attach has published all 33 attributes of a device whose
\* register read 0xffffffff and has not yet assigned hw_detector; module_bits
\* and module_31 read as -EINVAL
C17_Witness ==
    /\ pc = "p_check" /\ ret = 0
    /\ hw_detector = NULL
    /\ Cardinality(files) = NBITS + 1
    /\ detector[cur].module_bits = Bits
    /\ ReadFile(ModuleBitsName) = {[ret |-> -EINVAL, buf |-> <<>>]}
    /\ ReadFile(BitAttrName(NBITS - 1)) = {[ret |-> -EINVAL, buf |-> <<>>]}

====
